---- MODULE Spec2Model ----
(***************************************************************************)
(* A model of lib-dmx/src/dmx.c: the DMX512/RDM receive state machine that *)
(* runs in the UART FIQ, the slot watchdog on system timer compare 1, the  *)
(* two frame rings shared with the foreground, the foreground API and the  *)
(* start/stop of data in either port direction.                            *)
(*                                                                         *)
(* The C globals and the hardware registers the code touches are the       *)
(* fields of one record, the variable m, so that each C function is an     *)
(* operator from a state to a state and a call sequence is a composition.  *)
(* The free running microsecond counter CLO is the variable clo.  The      *)
(* remaining variables are history variables: they record what was         *)
(* received and what was returned, and no model of code reads them.        *)
(***************************************************************************)
EXTENDS Integers, Sequences, FiniteSets, TLC

VARIABLES
    m,            \* the globals of dmx.c and the registers it programs
    clo,          \* BCM2835_ST->CLO, the microsecond counter
    st_m1,        \* system timer compare 1 matched, interrupt pending
    rx_frame,     \* history: start code and slots of the DMX frame last in reception
    dmx_held,     \* history: DMX slot last returned to the foreground, or NONE
    api_ret,      \* history: value returned by the last foreground pop
    seen_frame,   \* history: frame processed by the previous dmx_is_data_changed
    rx_log,       \* history: UART events of the stream in reception
    log0,         \* history: counters and indices when rx_log was started
    silent,       \* the line has gone silent: no further UART events
    handed,       \* history: frames the foreground pops have returned, both rings
    tx_break_at,  \* history: time the last BREAK was put on the line since data
                  \* was enabled in output direction, or NONE
    dir_packets,  \* history: dmx_packets when dmx_set_port_direction last returned,
                  \* or NONE
    line,         \* the loopback line: events a sender put on it, number received
    pub,          \* history: per ring the number of the publish that filled each slot
                  \* and of the frame popped last, while followed
    due,          \* history: the break_to_break due to the frame of each DMX slot, while followed
    pps_started   \* history: DMX frames started since the last tick of compare 3, or NONE

vars == <<m, clo, st_m1, rx_frame, dmx_held, api_ret, seen_frame, rx_log, log0, silent,
          handed, tx_break_at, dir_packets, line, pub, due, pps_started>>

----------------------------------------------------------------------------
(* Sizes.  The headers that set them (dmx.h, rdm.h) are not part of the     *)
(* sources at hand; dmx.c only compares indices against them, so they are   *)
(* scaled down here.                                                        *)

\* log2 of DMX_DATA_BUFFER_INDEX_ENTRIES
DmxRingBits == 1
\* log2 of RDM_DATA_BUFFER_INDEX_ENTRIES
RdmRingBits == 1
\* slots of a full universe (512 in dmx.h)
DMX_UNIVERSE_SIZE == 3
\* bytes of one RDM ring slot
RDM_DATA_BUFFER_SIZE == 8
\* bytes of an RDM UID (6 in rdm.h); a discovery reply carries 2 * RDM_UID_SIZE
RDM_UID_SIZE == 1

DMX_DATA_BUFFER_INDEX_ENTRIES == 2 ^ DmxRingBits
DMX_DATA_BUFFER_INDEX_MASK == DMX_DATA_BUFFER_INDEX_ENTRIES - 1
RDM_DATA_BUFFER_INDEX_ENTRIES == 2 ^ RdmRingBits
RDM_DATA_BUFFER_INDEX_MASK == RDM_DATA_BUFFER_INDEX_ENTRIES - 1
\* start code plus a full universe
DMX_DATA_BUFFER_SIZE == DMX_UNIVERSE_SIZE + 1

\* Bounds of the exploration.
MaxTime == 120
TickStep == 60
MaxPackets == 3

\* Program constants.
DMX512_START_CODE == 0
E120_SC_RDM == 204
E120_SC_SUB_MESSAGE == 1
RDM_DISC_PREAMBLE == 254
RDM_DISC_DELIMITER == 170
SLOT_TO_SLOT_MIN == 44
SLOT_WATCHDOG_MARGIN == 12
PPS_PERIOD == 1000000
DMX_TRANSMIT_BREAK_TIME_MIN == 92
DMX_TRANSMIT_MAB_TIME_MIN == 12
DMX_TRANSMIT_PERIOD_DEFAULT == 25000
DMX_TRANSMIT_BREAK_TO_BREAK_TIME_MIN == 1204

NONE == -1

\* uint32_t, uint16_t and uint8_t arithmetic.  TLC's integers are 32 bit
\* signed, so the uint32_t modulus is scaled to 2^30.
WORD == 2 ^ 30
U32(x) == x % WORD
U16(x) == x % 65536
U8(x) == x % 256

\* x & mask for a mask of the form 2^k - 1
AndMask(x, mask) == x % (mask + 1)

----------------------------------------------------------------------------
(* The initial state: the static initialisers of dmx.c (lines 64-96), the  *)
(* arrays zero as C leaves statics, the FIQ masked and no timer handler.   *)

DmxSlotIdx == 0 .. DMX_DATA_BUFFER_INDEX_ENTRIES - 1
RdmSlotIdx == 0 .. RDM_DATA_BUFFER_INDEX_ENTRIES - 1

ZeroDmxSlot ==
    [data |-> [i \in 0 .. DMX_DATA_BUFFER_SIZE - 1 |-> 0],
     slots_in_packet |-> 0, slot_to_slot |-> 0, break_to_break |-> 0]

ZeroRdmSlot == [i \in 0 .. RDM_DATA_BUFFER_SIZE - 1 |-> 0]

StaticInit ==
    [dmx_data |-> [e \in DmxSlotIdx |-> ZeroDmxSlot],
     dmx_data_buffer_index_head |-> 0,
     dmx_data_buffer_index_tail |-> 0,
     dmx_data_previous |-> [i \in 0 .. DMX_DATA_BUFFER_SIZE - 1 |-> 0],
     dmx_slots_in_packet_previous |-> 0,
     dmx_receive_state |-> "IDLE",
     dmx_data_index |-> 0,
     dmx_fiq_micros_current |-> 0,
     dmx_fiq_micros_previous |-> 0,
     dmx_is_previous_break_dmx |-> FALSE,
     dmx_break_to_break_latest |-> 0,
     dmx_break_to_break_previous |-> 0,
     rdm_data_buffer |-> [e \in RdmSlotIdx |-> ZeroRdmSlot],
     rdm_data_buffer_index_head |-> 0,
     rdm_data_buffer_index_tail |-> 0,
     rdm_checksum |-> 0,
     rdm_data_receive_end |-> 0,
     rdm_disc_index |-> 0,
     rdm_oob |-> FALSE,
     dmx_updates_per_seconde |-> 0,
     dmx_packets_previous |-> 0,
     total_statistics |-> [dmx_packets |-> 0, rdm_packets |-> 0],
     dmx_port_direction |-> "INP",
     dmx_send_state |-> "IDLE",
     dmx_send_always |-> FALSE,
     dmx_send_break_micros |-> 0,
     dmx_output_break_time |-> DMX_TRANSMIT_BREAK_TIME_MIN,
     dmx_output_mab_time |-> DMX_TRANSMIT_MAB_TIME_MIN,
     dmx_output_period |-> DMX_TRANSMIT_PERIOD_DEFAULT,
     dmx_output_period_requested |-> DMX_TRANSMIT_PERIOD_DEFAULT,
     dmx_send_data_length |-> DMX_UNIVERSE_SIZE + 1,
     \* hardware
     fiq_enabled |-> FALSE,          \* CPSR F bit clear (__enable_fiq)
     pl011_rxim |-> FALSE,           \* PL011 IMSC.RXIM, routed to the FIQ
     pl011_brk |-> FALSE,            \* PL011 LCRH.BRK
     pl011_dr_out |-> <<>>,          \* bytes written to PL011 DR by the last MAB tick
     irq_timer_on |-> FALSE,         \* irq_timer_init done
     timer1_handler |-> "NULL",
     timer3_handler |-> "NULL",
     st_c1 |-> 0,
     st_c3 |-> 0,
     gpio_direction |-> 0,
     timer1_at |-> "RETURNED"]

----------------------------------------------------------------------------
(* fiq_dmx_in_handler, dmx.c lines 367-539.                                 *)

\* rdm_data_buffer[rdm_data_buffer_index_head][i] = v.  The buffer is one C
\* array of RDM_DATA_BUFFER_INDEX_ENTRIES rows: an index past the end of a row
\* lands in the following row, and past the last row outside the array.
StoreRdm(s, i, v) ==
    LET flat == s.rdm_data_buffer_index_head * RDM_DATA_BUFFER_SIZE + i
        row == flat \div RDM_DATA_BUFFER_SIZE
        col == flat % RDM_DATA_BUFFER_SIZE
    IN  IF row \in RdmSlotIdx
        THEN [s EXCEPT !.rdm_data_buffer[row][col] = v]
        ELSE [s EXCEPT !.rdm_oob = TRUE]

\* rdm_data_buffer[rdm_data_buffer_index_head][dmx_data_index++] = v
StoreRdmNext(s, v) ==
    [StoreRdm(s, s.dmx_data_index, v) EXCEPT !.dmx_data_index = U16(s.dmx_data_index + 1)]

\* head = (head + 1) & MASK, lines 448 and 546
DmxHeadNext(h) == AndMask(h + 1, DMX_DATA_BUFFER_INDEX_MASK)
\* lines 481 and 519
RdmHeadNext(h) == AndMask(h + 1, RDM_DATA_BUFFER_INDEX_MASK)

\* (struct _rdm_command *)->message_length and ->sub_start_code of the head
\* slot.  struct _rdm_command is declared in rdm.h, outside the sources at
\* hand: the offsets are those of the RDM packet layout, sub start code at 1
\* and message length at 2.
MessageLength(s) == s.rdm_data_buffer[s.rdm_data_buffer_index_head][2]
SubStartCode(s) == s.rdm_data_buffer[s.rdm_data_buffer_index_head][1]

\* A break that publishes the DMX frame in reception.
fiq_break_Publishing(s) ==
    [s EXCEPT !.dmx_receive_state = "BREAK",
              !.dmx_break_to_break_latest = s.dmx_fiq_micros_current,
              !.dmx_data_buffer_index_head =
                  IF s.dmx_receive_state = "DMXDATA"
                  THEN AndMask(s.dmx_data_buffer_index_head + 1, DMX_DATA_BUFFER_INDEX_MASK)
                  ELSE s.dmx_data_buffer_index_head]

\* lines 378-380: the data register flags a break
fiq_break(s) ==
    [s EXCEPT !.dmx_receive_state = "BREAK",
              !.dmx_break_to_break_latest = s.dmx_fiq_micros_current]

\* lines 389-395
fiq_idle(s, data) ==
    IF data = RDM_DISC_PREAMBLE
    THEN [StoreRdm(s, 0, RDM_DISC_PREAMBLE) EXCEPT
              !.dmx_receive_state = "RDMDISCFE", !.dmx_data_index = 1]
    ELSE s

\* lines 398-410: the start code of a DMX frame after a break
fiq_break_dmx(s) ==
    LET h == s.dmx_data_buffer_index_head
        s1 == [s EXCEPT !.dmx_receive_state = "DMXDATA",
                        !.dmx_data[h].data[0] = DMX512_START_CODE,
                        !.dmx_data_index = 1,
                        !.total_statistics.dmx_packets = U32(s.total_statistics.dmx_packets + 1)]
    IN  IF s.dmx_is_previous_break_dmx
        THEN [s1 EXCEPT !.dmx_data[h].break_to_break =
                            U32(s.dmx_break_to_break_latest - s.dmx_break_to_break_previous + WORD),
                        !.dmx_break_to_break_previous = s.dmx_break_to_break_latest]
        ELSE [s1 EXCEPT !.dmx_is_previous_break_dmx = TRUE,
                        !.dmx_break_to_break_previous = s.dmx_break_to_break_latest]

\* lines 416-422: the start code of an RDM packet after a break
fiq_break_rdm(s) ==
    [StoreRdm(s, 0, E120_SC_RDM) EXCEPT
         !.dmx_receive_state = "RDMDATA",
         !.rdm_checksum = E120_SC_RDM,
         !.dmx_data_index = 1,
         !.total_statistics.rdm_packets = U32(s.total_statistics.rdm_packets + 1),
         !.dmx_is_previous_break_dmx = FALSE]

\* A start code switch that takes every start code but that of RDM for DMX.
fiq_after_break_AnyDmx(s, data) ==
    IF data = E120_SC_RDM THEN fiq_break_rdm(s) ELSE fiq_break_dmx(s)

\* lines 396-437
fiq_after_break(s, data) ==
    CASE data = DMX512_START_CODE -> fiq_break_dmx(s)
      [] data = E120_SC_RDM -> fiq_break_rdm(s)
      [] OTHER -> [s EXCEPT !.dmx_receive_state = "IDLE",
                            !.dmx_is_previous_break_dmx = FALSE]

\* lines 439-442: the time since the previous FIQ, not below 44
SlotToSlot(current, previous) ==
    LET d == U32(current - previous + WORD)
    IN  IF d < SLOT_TO_SLOT_MIN THEN SLOT_TO_SLOT_MIN ELSE d

\* WatchdogArm that leaves compare 1 as it was.
WatchdogArm_Unarmed(s) == s.st_c1

\* line 444: the compare value the slot watchdog is armed with
WatchdogArm(s) ==
    U32(s.dmx_fiq_micros_current + s.dmx_data[0].slot_to_slot + SLOT_WATCHDOG_MARGIN)

\* lines 445-448: the frame is complete once the index has passed the last slot
DmxFrameFull(index) == index > DMX_UNIVERSE_SIZE

\* lines 438-454
fiq_dmxdata(s, data) ==
    LET h == s.dmx_data_buffer_index_head
        s1 == [s EXCEPT !.dmx_data[h].slot_to_slot =
                            SlotToSlot(s.dmx_fiq_micros_current, s.dmx_fiq_micros_previous)]
        s2 == [s1 EXCEPT !.dmx_data[h].data[s.dmx_data_index] = data,
                         !.dmx_data_index = U16(s.dmx_data_index + 1)]
        s3 == [s2 EXCEPT !.st_c1 = WatchdogArm(s2)]
    IN  IF DmxFrameFull(s3.dmx_data_index)
        THEN [s3 EXCEPT !.dmx_receive_state = "IDLE",
                        !.dmx_data[h].slots_in_packet = DMX_UNIVERSE_SIZE,
                        !.dmx_data_buffer_index_head = DmxHeadNext(h)]
        ELSE s3

\* line 466: the last byte of the message has been stored
RdmMessageEnd(s) == s.dmx_data_index = MessageLength(s)

\* lines 455-470
fiq_rdmdata(s, data) ==
    IF s.dmx_data_index > RDM_DATA_BUFFER_SIZE
    THEN [s EXCEPT !.dmx_receive_state = "IDLE"]
    ELSE LET s1 == [StoreRdmNext(s, data) EXCEPT !.rdm_checksum = U16(s.rdm_checksum + data)]
         IN  IF RdmMessageEnd(s1)
             THEN [s1 EXCEPT !.dmx_receive_state = "CHECKSUMH"]
             ELSE s1

\* lines 471-475
fiq_checksumh(s, data) ==
    [StoreRdmNext(s, data) EXCEPT
         !.rdm_checksum = U16(s.rdm_checksum - data * 256 + 65536),
         !.dmx_receive_state = "CHECKSUML"]

\* line 480: the test that publishes an RDM packet
RdmAccept(s) == s.rdm_checksum = 0 /\ SubStartCode(s) = E120_SC_SUB_MESSAGE

\* lines 476-488
fiq_checksuml(s, data, now) ==
    LET s1 == [StoreRdmNext(s, data) EXCEPT
                   !.rdm_checksum = U16(s.rdm_checksum - data + 65536)]
        s2 == IF RdmAccept(s1)
              THEN [s1 EXCEPT !.rdm_data_buffer_index_head =
                                  RdmHeadNext(s1.rdm_data_buffer_index_head),
                              !.rdm_data_receive_end = now]
              ELSE s1
    IN  [s2 EXCEPT !.dmx_receive_state = "IDLE"]

\* lines 489-506
fiq_rdmdiscfe(s, data) ==
    CASE data = RDM_DISC_PREAMBLE -> StoreRdmNext(s, RDM_DISC_PREAMBLE)
      [] data = RDM_DISC_DELIMITER ->
             [StoreRdmNext(s, RDM_DISC_DELIMITER) EXCEPT
                  !.dmx_receive_state = "RDMDISCEUID", !.rdm_disc_index = 0]
      [] OTHER -> [s EXCEPT !.dmx_receive_state = "IDLE"]

\* lines 507-514
fiq_rdmdisceuid(s, data) ==
    LET s1 == [StoreRdmNext(s, data) EXCEPT !.rdm_disc_index = U8(s.rdm_disc_index + 1)]
    IN  IF s1.rdm_disc_index = 2 * RDM_UID_SIZE
        THEN [s1 EXCEPT !.dmx_receive_state = "RDMDISCECS", !.rdm_disc_index = 0]
        ELSE s1

\* lines 515-526
fiq_rdmdiscecs(s, data, now) ==
    LET s1 == [StoreRdmNext(s, data) EXCEPT !.rdm_disc_index = U8(s.rdm_disc_index + 1)]
    IN  IF s1.rdm_disc_index = 4
        THEN [s1 EXCEPT !.rdm_data_buffer_index_head =
                            RdmHeadNext(s1.rdm_data_buffer_index_head),
                        !.dmx_receive_state = "IDLE",
                        !.rdm_data_receive_end = now]
        ELSE s1

\* lines 386-529: a data byte, by receive state
fiq_byte(s, data, now) ==
    CASE s.dmx_receive_state = "IDLE" -> fiq_idle(s, data)
      [] s.dmx_receive_state = "BREAK" -> fiq_after_break(s, data)
      [] s.dmx_receive_state = "DMXDATA" -> fiq_dmxdata(s, data)
      [] s.dmx_receive_state = "RDMDATA" -> fiq_rdmdata(s, data)
      [] s.dmx_receive_state = "CHECKSUMH" -> fiq_checksumh(s, data)
      [] s.dmx_receive_state = "CHECKSUML" -> fiq_checksuml(s, data, now)
      [] s.dmx_receive_state = "RDMDISCFE" -> fiq_rdmdiscfe(s, data)
      [] s.dmx_receive_state = "RDMDISCEUID" -> fiq_rdmdisceuid(s, data)
      [] s.dmx_receive_state = "RDMDISCECS" -> fiq_rdmdiscecs(s, data, now)
      [] OTHER -> s

\* The handler on one read of the data register: be is PL011_DR_BE, data the
\* low byte, now the value of CLO (read at line 374, and again at 482 and 521).
fiq_dmx_in_handler(s, now, be, data) ==
    LET s0 == [s EXCEPT !.dmx_fiq_micros_current = now]
        s1 == IF be THEN fiq_break(s0) ELSE fiq_byte(s0, data, now)
    IN  [s1 EXCEPT !.dmx_fiq_micros_previous = s1.dmx_fiq_micros_current]

----------------------------------------------------------------------------
(* The timer handlers, dmx.c lines 541-599.                                 *)

\* line 543: the silence since the last FIQ exceeds the slot time
WatchdogExpired(s, now) ==
    U32(now - s.dmx_fiq_micros_current + WORD) > s.dmx_data[0].slot_to_slot

\* line 545
WatchdogSlots(index) == index - 1

\* lines 542-543 and 551-553: the tests of the watchdog, and the rearm when
\* the slot time has not passed.  timer1_at records that the handler is past
\* the test of line 543 with its writes still to come.
irq_timer1_dmx_receive_test(s, now) ==
    LET h == s.dmx_data_buffer_index_head
    IN  IF s.dmx_receive_state = "DMXDATA"
        THEN IF WatchdogExpired(s, now)
             THEN [s EXCEPT !.timer1_at = "EXPIRED"]
             ELSE [s EXCEPT !.st_c1 = U32(now + s.dmx_data[h].slot_to_slot)]
        ELSE s

\* lines 544-546: the writes of the watchdog, with the head and the index as
\* they are when the writes happen
irq_timer1_dmx_receive_publish(s) ==
    LET h == s.dmx_data_buffer_index_head
    IN  [s EXCEPT !.dmx_receive_state = "IDLE",
                  !.dmx_data[h].slots_in_packet = WatchdogSlots(s.dmx_data_index),
                  !.dmx_data_buffer_index_head = DmxHeadNext(h),
                  !.timer1_at = "RETURNED"]

\* lines 541-555, run without a FIQ in between
irq_timer1_dmx_receive(s, now) ==
    LET s1 == irq_timer1_dmx_receive_test(s, now)
    IN  IF s1.timer1_at = "EXPIRED" THEN irq_timer1_dmx_receive_publish(s1) ELSE s1

\* lines 557-561
irq_timer3_dmx_receive(s, now) ==
    [s EXCEPT !.st_c3 = U32(now + PPS_PERIOD),
              !.dmx_updates_per_seconde =
                  U32(s.total_statistics.dmx_packets - s.dmx_packets_previous + WORD),
              !.dmx_packets_previous = s.total_statistics.dmx_packets]

\* lines 347-350
dmx_reset_total_statistics(s) ==
    [s EXCEPT !.total_statistics.dmx_packets = 0,
              !.total_statistics.rdm_packets = 0]

\* lines 563-599
irq_timer1_dmx_send(s, now) ==
    CASE s.dmx_send_state = "IDLE" ->
             [s EXCEPT !.st_c1 = U32(now + s.dmx_output_break_time),
                       !.pl011_brk = TRUE,
                       !.dmx_send_break_micros = now,
                       !.dmx_send_state = "BREAK"]
      [] s.dmx_send_state = "BREAK" ->
             [s EXCEPT !.st_c1 = U32(now + s.dmx_output_mab_time),
                       !.pl011_brk = FALSE,
                       !.dmx_send_state = "MAB"]
      [] s.dmx_send_state = "MAB" ->
             [s EXCEPT !.st_c1 = U32(s.dmx_send_break_micros + s.dmx_output_period),
                       !.pl011_dr_out =
                           [i \in 1 .. s.dmx_send_data_length |-> s.dmx_data[0].data[i - 1]],
                       !.dmx_send_state = "IDLE"]
      [] OTHER -> [s EXCEPT !.dmx_send_state = "IDLE"]

----------------------------------------------------------------------------
(* The foreground API, dmx.c lines 188-283.                                 *)

\* A pop that returns the slot after the tail.
dmx_get_available_ret_Next(s) ==
    IF s.dmx_data_buffer_index_head = s.dmx_data_buffer_index_tail
    THEN NONE
    ELSE AndMask(s.dmx_data_buffer_index_tail + 1, DMX_DATA_BUFFER_INDEX_MASK)

\* lines 212-221: the slot returned, NONE for NULL
dmx_get_available_ret(s) ==
    IF s.dmx_data_buffer_index_head = s.dmx_data_buffer_index_tail
    THEN NONE
    ELSE s.dmx_data_buffer_index_tail

dmx_get_available(s) ==
    IF s.dmx_data_buffer_index_head = s.dmx_data_buffer_index_tail
    THEN s
    ELSE [s EXCEPT !.dmx_data_buffer_index_tail =
                       AndMask(s.dmx_data_buffer_index_tail + 1, DMX_DATA_BUFFER_INDEX_MASK)]

\* lines 188-196
rdm_get_available_ret(s) ==
    IF s.rdm_data_buffer_index_head = s.rdm_data_buffer_index_tail
    THEN NONE
    ELSE s.rdm_data_buffer_index_tail

rdm_get_available(s) ==
    IF s.rdm_data_buffer_index_head = s.rdm_data_buffer_index_tail
    THEN s
    ELSE [s EXCEPT !.rdm_data_buffer_index_tail =
                       AndMask(s.rdm_data_buffer_index_tail + 1, RDM_DATA_BUFFER_INDEX_MASK)]

\* lines 265 and 273: the bytes the two loops walk, DMX_DATA_BUFFER_SIZE / 4
\* words from the start of the slot
ComparedBytes == 0 .. DMX_DATA_BUFFER_SIZE - 1

\* lines 273-280: some compared byte of the slot differs from the shadow
ShadowDiffers(s, p) ==
    \E i \in ComparedBytes : s.dmx_data_previous[i] # s.dmx_data[p].data[i]

\* lines 250-283: the value returned, NONE for NULL
dmx_is_data_changed_ret(s) ==
    LET p == dmx_get_available_ret(s)
    IN  IF p = NONE THEN NONE
        ELSE IF s.dmx_data[p].slots_in_packet # s.dmx_slots_in_packet_previous THEN p
        ELSE IF ShadowDiffers(s, p) THEN p
        ELSE NONE

\* lines 250-283: both loops leave the shadow equal to the compared bytes
dmx_is_data_changed(s) ==
    LET p == dmx_get_available_ret(s)
        s1 == dmx_get_available(s)
    IN  IF p = NONE THEN s1
        ELSE [s1 EXCEPT !.dmx_slots_in_packet_previous = s.dmx_data[p].slots_in_packet,
                        !.dmx_data_previous =
                            [i \in 0 .. DMX_DATA_BUFFER_SIZE - 1 |->
                                 IF i \in ComparedBytes THEN s.dmx_data[p].data[i]
                                 ELSE s.dmx_data_previous[i]]]

----------------------------------------------------------------------------
(* The transmit parameters, dmx.c lines 113-150 and 317-341.                *)

\* MAX of util.h, on unsigned operands
MAX(a, b) == IF a > b THEN a ELSE b

\* line 114: the time one packet takes, in uint32_t arithmetic
PackageLengthUs(s) ==
    U32(s.dmx_output_break_time + s.dmx_output_mab_time + s.dmx_send_data_length * 44)

\* lines 113-127
dmx_set_output_period(s, period) ==
    LET package_length_us == PackageLengthUs(s)
        derived == MAX(DMX_TRANSMIT_BREAK_TO_BREAK_TIME_MIN, U32(package_length_us + 44))
    IN  [s EXCEPT !.dmx_output_period_requested = period,
                  !.dmx_output_period =
                      IF period # 0
                      THEN IF period < package_length_us THEN derived ELSE period
                      ELSE derived]

\* lines 134-138
dmx_set_send_data_length(s, send_data_length) ==
    dmx_set_output_period([s EXCEPT !.dmx_send_data_length = send_data_length],
                          s.dmx_output_period_requested)

\* lines 146-150: data is a sequence of at least length bytes, length not
\* beyond the data array of the slot
dmx_set_send_data(s, data, length) ==
    dmx_set_send_data_length(
        [s EXCEPT !.dmx_data[0].data =
                      [i \in 0 .. DMX_DATA_BUFFER_SIZE - 1 |->
                           IF i < length THEN data[i + 1] ELSE s.dmx_data[0].data[i]]],
        length)

\* lines 317-321
dmx_set_output_break_time(s, break_time) ==
    dmx_set_output_period(
        [s EXCEPT !.dmx_output_break_time = MAX(DMX_TRANSMIT_BREAK_TIME_MIN, break_time)],
        s.dmx_output_period_requested)

\* lines 337-341
dmx_set_output_mab_time(s, mab_time) ==
    dmx_set_output_period(
        [s EXCEPT !.dmx_output_mab_time = MAX(DMX_TRANSMIT_MAB_TIME_MIN, mab_time)],
        s.dmx_output_period_requested)

----------------------------------------------------------------------------
(* Start and stop of data, dmx.c lines 605-707, and dmx_init, 760-794.      *)

\* DisableFiq that leaves the FIQ as it was.
DisableFiq_Skipped(s) == s

\* line 670: __disable_fiq()
DisableFiq(s) == [s EXCEPT !.fiq_enabled = FALSE]

\* lines 655-678.  The wait at lines 659-665 for the send state machine to
\* come to IDLE changes no variable of dmx.c.
dmx_stop_data(s) ==
    LET s1 == IF s.dmx_send_always
              THEN [s EXCEPT !.dmx_send_always = FALSE, !.timer1_handler = "NULL"]
              ELSE s
        s2 == DisableFiq(s1)
    IN  [s2 EXCEPT !.dmx_receive_state = "IDLE",
                   !.dmx_data = [e \in DmxSlotIdx |->
                                     [s2.dmx_data[e] EXCEPT !.slots_in_packet = 0]]]

\* lines 605-643
dmx_start_data(s, now) ==
    CASE s.dmx_port_direction = "OUTP" ->
             [s EXCEPT !.dmx_send_always = TRUE,
                       !.dmx_send_state = "IDLE",
                       !.timer1_handler = "irq_timer1_dmx_send",
                       !.st_c1 =
                           IF U32(now - s.dmx_send_break_micros + WORD) > s.dmx_output_period
                           THEN U32(now + 4)
                           ELSE U32(s.dmx_output_period + s.dmx_send_break_micros + 4)]
      [] s.dmx_port_direction = "INP" ->
             [s EXCEPT !.dmx_receive_state = "IDLE",
                       !.timer1_handler = "irq_timer1_dmx_receive",
                       !.timer3_handler = "irq_timer3_dmx_receive",
                       !.st_c3 = U32(now + PPS_PERIOD),
                       !.fiq_enabled = TRUE]
      [] OTHER -> s

\* lines 686-707; any direction other than OUTP is taken as INP
dmx_set_port_direction(s, port_direction, enable_data, now) ==
    LET s1 == dmx_stop_data(s)
        s2 == IF port_direction = "OUTP"
              THEN [s1 EXCEPT !.gpio_direction = 1, !.dmx_port_direction = "OUTP"]
              ELSE [s1 EXCEPT !.gpio_direction = 0, !.dmx_port_direction = "INP"]
    IN  IF enable_data THEN dmx_start_data(s2, now) ELSE s2

\* lines 156-163
dmx_clear_data(s) == [s EXCEPT !.dmx_data = [e \in DmxSlotIdx |-> ZeroDmxSlot]]

\* lines 760-794.  irq_timer_init (line 791) is not part of the sources at
\* hand: whether it drops the handlers installed with irq_timer_set is left
\* open (keep_handlers).  pl011_init (715-754) unmasks the receive interrupt
\* and writes LCRH without the break bit.
dmx_init(s, keep_handlers) ==
    LET s1 == dmx_clear_data([s EXCEPT !.gpio_direction = 0])
        s2 == [s1 EXCEPT !.dmx_data_buffer_index_head = 0,
                         !.dmx_data_buffer_index_tail = 0,
                         !.rdm_data_buffer_index_head = 0,
                         !.rdm_data_buffer_index_tail = 0,
                         !.dmx_receive_state = "IDLE",
                         !.dmx_send_state = "IDLE",
                         !.dmx_send_always = FALSE]
        s3 == [s2 EXCEPT !.irq_timer_on = TRUE,
                         !.timer1_handler = IF keep_handlers THEN @ ELSE "NULL",
                         !.timer3_handler = IF keep_handlers THEN @ ELSE "NULL"]
    IN  [s3 EXCEPT !.pl011_rxim = TRUE, !.pl011_brk = FALSE]

----------------------------------------------------------------------------
(* History variables.                                                       *)

\* The DMX frame last in reception, after one UART event: started anew by
\* the start code, extended by every slot stored.
RxFrameNext(s, be, data) ==
    CASE be -> rx_frame
      [] s.dmx_receive_state = "BREAK" /\ data = DMX512_START_CODE -> <<data>>
      [] s.dmx_receive_state = "DMXDATA" -> Append(rx_frame, data)
      [] OTHER -> rx_frame

\* The length and the payload of the frame in DMX slot p as the consumer
\* reads it: slots_in_packet, then the start code and that many slots.
Payload(s, p) ==
    <<s.dmx_data[p].slots_in_packet,
      [i \in 1 .. s.dmx_data[p].slots_in_packet + 1 |-> s.dmx_data[p].data[i - 1]]>>

\* What rx_log records of the running counters when it is started.
Snapshot(s) ==
    [state |-> s.dmx_receive_state,
     rdm_head |-> s.rdm_data_buffer_index_head,
     dmx_head |-> s.dmx_data_buffer_index_head,
     dmx_packets |-> s.total_statistics.dmx_packets,
     rdm_packets |-> s.total_statistics.rdm_packets]

MaxLog == 6
MaxPreamble == 1

\* A UART event as rx_log keeps it: BRK for a break, else the byte.
BRK == 256
Event(be, data) == IF be THEN BRK ELSE data

\* The longest stream rx_log follows: a packet of MaxLog events with the
\* break, a discovery reply with MaxPreamble preamble bytes.
LogLimit(log) ==
    IF log = <<>> THEN 0
    ELSE IF log[1] = BRK THEN MaxLog
    ELSE MaxPreamble + 1 + 2 * RDM_UID_SIZE + 4

\* rx_log is started by a break, or in IDLE by a byte of a discovery reply
\* once the stream before it has ended.
LogStarts(s, be, data) ==
    \/ be
    \/ /\ Len(rx_log) >= LogLimit(rx_log)
       /\ s.dmx_receive_state = "IDLE"
       /\ data \in {RDM_DISC_PREAMBLE, RDM_DISC_DELIMITER}

\* The line carries streams of at most LogLimit events: after the last one
\* it is quiet until the next stream starts.
OnLine(s, be, data) == LogStarts(s, be, data) \/ Len(rx_log) < LogLimit(rx_log)

LogNext(s, be, data) ==
    IF LogStarts(s, be, data) THEN <<Event(be, data)>> ELSE Append(rx_log, data)

----------------------------------------------------------------------------
(* The actions.                                                             *)

\* The order of publication of one ring after a step: a head that moved has
\* published the slot it left, which takes the next number; a pop that
\* returned slot ret has returned the frame of the number the slot holds.
PubRing(r, head, head_next, ret) ==
    [seq  |-> IF head_next # head THEN [r.seq EXCEPT ![head] = r.n + 1] ELSE r.seq,
     n    |-> IF head_next # head THEN r.n + 1 ELSE r.n,
     last |-> IF ret = NONE THEN r.last ELSE r.seq[ret]]

\* No frame published, none popped.
PubStart ==
    [followed |-> TRUE,
     dmx |-> [seq |-> [i \in DmxSlotIdx |-> 0], n |-> 0, last |-> 0],
     rdm |-> [seq |-> [i \in RdmSlotIdx |-> 0], n |-> 0, last |-> 0]]

\* The order of publication is not followed.
PubOff == [PubStart EXCEPT !.followed = FALSE]

\* The order of publication after a step from m to t in which the pops
\* returned dmx_ret and rdm_ret.
PubNext(t, dmx_ret, rdm_ret) ==
    IF ~pub.followed THEN pub
    ELSE [followed |-> TRUE,
          dmx |-> PubRing(pub.dmx, m.dmx_data_buffer_index_head,
                          t.dmx_data_buffer_index_head, dmx_ret),
          rdm |-> PubRing(pub.rdm, m.rdm_data_buffer_index_head,
                          t.rdm_data_buffer_index_head, rdm_ret)]

\* The break_to_break due to the frame of each slot after the FIQ has
\* taken a byte: the start code of a DMX frame in the slot at the head makes
\* the time between its break and the break of the DMX frame before it due,
\* and zero when the break before was not that of a DMX frame.
DueStart == [followed |-> TRUE, slot |-> [i \in DmxSlotIdx |-> 0]]
DueOff == [DueStart EXCEPT !.followed = FALSE]

DueNext(be, data) ==
    IF /\ due.followed
       /\ ~be
       /\ m.dmx_receive_state = "BREAK"
       /\ data = DMX512_START_CODE
    THEN [due EXCEPT !.slot[m.dmx_data_buffer_index_head] =
              IF m.dmx_is_previous_break_dmx
              THEN U32(m.dmx_break_to_break_latest - m.dmx_break_to_break_previous + WORD)
              ELSE 0]
    ELSE due

\* The DMX frames started since the last tick of compare 3, after the FIQ
\* has taken a byte: the DMX start code after a break starts one.
StartedNext(be, data) ==
    IF /\ pps_started # NONE
       /\ ~be
       /\ m.dmx_receive_state = "BREAK"
       /\ data = DMX512_START_CODE
    THEN pps_started + 1
    ELSE pps_started

\* The byte would start one more packet than MaxPackets, or extend a
\* discovery preamble beyond the end of rdm_data_buffer.
CountsFull(s, be, data) ==
    /\ ~be
    /\ \/ /\ s.dmx_receive_state = "BREAK"
          /\ data \in {DMX512_START_CODE, E120_SC_RDM}
          /\ s.total_statistics.dmx_packets + s.total_statistics.rdm_packets >= MaxPackets
       \/ /\ s.dmx_receive_state = "RDMDISCFE"
          /\ data = RDM_DISC_PREAMBLE
          /\ s.dmx_data_index >= RDM_DATA_BUFFER_SIZE

\* The UART raises the FIQ with a break or a byte in the data register.
UartEvent(be, data) ==
    /\ m.fiq_enabled
    /\ m.pl011_rxim
    /\ ~silent
    /\ ~CountsFull(m, be, data)
    /\ m' = fiq_dmx_in_handler(m, clo, be, data)
    /\ rx_frame' = RxFrameNext(m, be, data)
    /\ pub' = PubNext(m', NONE, NONE)
    /\ due' = DueNext(be, data)
    /\ pps_started' = StartedNext(be, data)
    /\ UNCHANGED <<clo, st_m1, dmx_held, api_ret, seen_frame, rx_log, log0, silent, handed, tx_break_at, dir_packets, line>>

\* The same interrupt, with the stream kept in rx_log.
UartStream(be, data) ==
    /\ m.fiq_enabled
    /\ m.pl011_rxim
    /\ ~CountsFull(m, be, data)
    /\ OnLine(m, be, data)
    /\ m' = fiq_dmx_in_handler(m, clo, be, data)
    /\ rx_frame' = RxFrameNext(m, be, data)
    /\ rx_log' = LogNext(m, be, data)
    /\ log0' = IF LogStarts(m, be, data) THEN Snapshot(m) ELSE log0
    /\ pub' = PubNext(m', NONE, NONE)
    /\ due' = DueNext(be, data)
    /\ pps_started' = StartedNext(be, data)
    /\ UNCHANGED <<clo, st_m1, dmx_held, api_ret, seen_frame, silent, handed, tx_break_at, dir_packets, line>>

\* Time is followed to MaxTime, and past it for MaxSilence while the
\* watchdog of a silent line is still to run.
MaxSilence == 300
TimeFollowed ==
    \/ clo + TickStep <= MaxTime
    \/ /\ silent
       /\ m.dmx_receive_state = "DMXDATA"
       /\ clo + TickStep <= MaxTime + MaxSilence

\* Time passes; compare 1 matches when CLO reaches C1.
Tick ==
    /\ TimeFollowed
    /\ clo' = clo + TickStep
    /\ st_m1' = (st_m1 \/ (clo < m.st_c1 /\ m.st_c1 <= clo'))
    /\ UNCHANGED <<m, rx_frame, dmx_held, api_ret, seen_frame, rx_log, log0, silent, handed, tx_break_at, dir_packets, line, pub, due, pps_started>>

\* The line falls silent in a DMX packet with at least one slot received.
GoSilent ==
    /\ ~silent
    /\ m.fiq_enabled
    /\ m.dmx_receive_state = "DMXDATA"
    /\ m.dmx_data_index >= 2
    /\ silent' = TRUE
    /\ log0' = Snapshot(m)
    /\ UNCHANGED <<m, clo, st_m1, rx_frame, dmx_held, api_ret, seen_frame, rx_log, handed, tx_break_at, dir_packets, line, pub, due, pps_started>>

\* The timer interrupt of compare 1 calls the handler installed with
\* irq_timer_set, passing CLO.
Timer1Handler(s, now) ==
    CASE s.timer1_handler = "irq_timer1_dmx_receive" -> irq_timer1_dmx_receive(s, now)
      [] s.timer1_handler = "irq_timer1_dmx_send" -> irq_timer1_dmx_send(s, now)
      [] OTHER -> s

Timer1Irq ==
    /\ st_m1
    /\ m.irq_timer_on
    /\ st_m1' = FALSE
    /\ m' = Timer1Handler(m, clo)
    /\ pub' = PubNext(m', NONE, NONE)
    /\ UNCHANGED <<clo, rx_frame, dmx_held, api_ret, seen_frame, rx_log, log0, silent, handed, tx_break_at, dir_packets, line, due, pps_started>>

\* The same interrupt with the FIQ enabled while irq_timer1_dmx_receive runs:
\* the tests are one step and the writes another, and the UART may raise the
\* FIQ in between.
Timer1Test ==
    /\ st_m1
    /\ m.irq_timer_on
    /\ m.timer1_handler = "irq_timer1_dmx_receive"
    /\ m.timer1_at = "RETURNED"
    /\ st_m1' = FALSE
    /\ m' = irq_timer1_dmx_receive_test(m, clo)
    /\ UNCHANGED <<clo, rx_frame, dmx_held, api_ret, seen_frame, rx_log, log0, silent, handed, tx_break_at, dir_packets, line, pub, due, pps_started>>

Timer1Publish ==
    /\ m.timer1_at = "EXPIRED"
    /\ m' = irq_timer1_dmx_receive_publish(m)
    /\ pub' = PubNext(m', NONE, NONE)
    /\ UNCHANGED <<clo, st_m1, rx_frame, dmx_held, api_ret, seen_frame, rx_log, log0, silent, handed, tx_break_at, dir_packets, line, due, pps_started>>

\* Seconds are followed to MaxSeconds.
MaxSeconds == 3

\* Compare 3 matches and its interrupt calls the handler installed: the
\* time is that of the compare register.
Timer3Irq ==
    /\ m.irq_timer_on
    /\ m.timer3_handler = "irq_timer3_dmx_receive"
    /\ m.st_c3 > clo
    /\ m.st_c3 <= MaxSeconds * PPS_PERIOD
    /\ clo' = m.st_c3
    /\ m' = irq_timer3_dmx_receive(m, m.st_c3)
    /\ pps_started' = IF pps_started = NONE THEN NONE ELSE 0
    /\ UNCHANGED <<st_m1, rx_frame, dmx_held, api_ret, seen_frame, rx_log, log0, silent,
                   handed, tx_break_at, dir_packets, line, pub, due>>

\* The foreground resets the totals.
ResetTotalStatistics ==
    /\ m' = dmx_reset_total_statistics(m)
    /\ UNCHANGED <<clo, st_m1, rx_frame, dmx_held, api_ret, seen_frame, rx_log, log0, silent,
                   handed, tx_break_at, dir_packets, line, pub, due, pps_started>>

\* The count of frames handed to the foreground after a pop that returned
\* slot ret; the count is followed up to MaxPackets.
HandedNext(ret) == IF ret = NONE THEN handed ELSE handed + 1
HandedFollowed(ret) == ret = NONE \/ handed < MaxPackets

\* The microseconds from time t until CLO equals the compare value c: the
\* system timer matches on equality of the 32 bit counter, so a value the
\* counter has just passed matches after it has wrapped.
UntilMatch(c, t) ==
    LET d == (c - U32(t) + WORD) % WORD
    IN  IF d = 0 THEN WORD ELSE d

\* lines 584-590: the MAB tick stays in the handler until the UART has sent
\* the bytes, 44 microseconds each (the slot time of line 114)
SendBusy(s) == IF s.dmx_send_state = "MAB" THEN s.dmx_send_data_length * 44 ELSE 0

\* Sending is followed for the cycles whose BREAK starts by MaxSendTime,
\* and into the first wrap of the counter.
MaxSendTime == 3000

\* The time irq_timer1_dmx_send is entered next: at the match of compare 1,
\* or at once when compare 1 matched while the handler before was busy.
SendEntry == IF st_m1 THEN clo ELSE clo + UntilMatch(m.st_c1, clo)

\* Compare 1 matches in output direction: irq_timer1_dmx_send runs from its
\* entry to its return.
Timer1Send ==
    /\ m.irq_timer_on
    /\ m.timer1_handler = "irq_timer1_dmx_send"
    /\ m.dmx_send_break_micros <= MaxSendTime
    /\ st_m1 \/ UntilMatch(m.st_c1, clo) <= WORD + MaxSendTime - clo
    /\ m' = irq_timer1_dmx_send(m, U32(SendEntry))
    /\ clo' = SendEntry + SendBusy(m)
    /\ st_m1' = (UntilMatch(m'.st_c1, SendEntry) <= SendBusy(m))
    /\ tx_break_at' = IF m.dmx_send_state = "IDLE" THEN SendEntry ELSE tx_break_at
    /\ UNCHANGED <<rx_frame, dmx_held, api_ret, seen_frame, rx_log, log0, silent, handed, dir_packets, line, pub, due, pps_started>>

\* The events a sender puts on the line for one packet: a sender initialised
\* and enabled in output direction is given the data, and its timer walks
\* IDLE, BREAK, MAB, IDLE.  The break is on the line while the break bit is
\* set; the bytes are those the MAB tick writes to the data register.
TxEvents(data, length) ==
    LET tx0 == dmx_set_send_data(
                   dmx_set_port_direction(dmx_init(StaticInit, TRUE), "OUTP", TRUE, 0),
                   data, length)
        tx1 == irq_timer1_dmx_send(tx0, tx0.st_c1)
        tx2 == irq_timer1_dmx_send(tx1, tx1.st_c1)
        tx3 == irq_timer1_dmx_send(tx2, tx2.st_c1)
    IN  (IF tx1.pl011_brk /\ ~tx2.pl011_brk THEN <<BRK>> ELSE <<>>) \o tx3.pl011_dr_out

\* The time from one event of the sender to the next at the receiver: a
\* byte takes 44 microseconds, the first follows the break after the mark.
TxGap(taken) ==
    IF taken >= 1 /\ line.sent[taken] = BRK THEN DMX_TRANSMIT_MAB_TIME_MIN + 44 ELSE 44

\* The receiver is followed until MaxLoopTime.
MaxLoopTime == 600

\* A sender puts one packet on the line.
LoopSend(data, length) ==
    /\ line.sent = <<>>
    /\ line' = [sent |-> TxEvents(data, length), taken |-> 0]
    /\ UNCHANGED <<m, clo, st_m1, rx_frame, dmx_held, api_ret, seen_frame, rx_log, log0, silent,
                   handed, tx_break_at, dir_packets, pub, due, pps_started>>

\* The UART raises the FIQ with the next event of the line.
LoopReceive ==
    /\ line.taken < Len(line.sent)
    /\ m.fiq_enabled
    /\ m.pl011_rxim
    /\ LET ev == line.sent[line.taken + 1]
           be == ev = BRK
           data == IF be THEN 0 ELSE ev
       IN  /\ clo' = clo + TxGap(line.taken)
           /\ m' = fiq_dmx_in_handler(m, clo', be, data)
           /\ rx_frame' = RxFrameNext(m, be, data)
    /\ st_m1' = (st_m1 \/ (clo < m.st_c1 /\ m.st_c1 <= clo'))
    /\ line' = [line EXCEPT !.taken = @ + 1]
    /\ pub' = PubNext(m', NONE, NONE)
    /\ due' = DueNext(line.sent[line.taken + 1] = BRK, line.sent[line.taken + 1])
    /\ pps_started' = StartedNext(line.sent[line.taken + 1] = BRK, line.sent[line.taken + 1])
    /\ UNCHANGED <<dmx_held, api_ret, seen_frame, rx_log, log0, silent, handed, tx_break_at,
                   dir_packets>>

\* The line is idle after the packet: time passes at the receiver.
LoopIdle ==
    /\ line.sent # <<>>
    /\ line.taken = Len(line.sent)
    /\ clo + TickStep <= MaxLoopTime
    /\ clo' = clo + TickStep
    /\ st_m1' = (st_m1 \/ (clo < m.st_c1 /\ m.st_c1 <= clo'))
    /\ UNCHANGED <<m, rx_frame, dmx_held, api_ret, seen_frame, rx_log, log0, silent, handed,
                   tx_break_at, dir_packets, line, pub, due, pps_started>>

DmxGetAvailable ==
    /\ HandedFollowed(dmx_get_available_ret(m))
    /\ m' = dmx_get_available(m)
    /\ api_ret' = dmx_get_available_ret(m)
    /\ dmx_held' = dmx_get_available_ret(m)
    /\ handed' = HandedNext(dmx_get_available_ret(m))
    /\ pub' = PubNext(m', dmx_get_available_ret(m), NONE)
    /\ UNCHANGED <<clo, st_m1, rx_frame, seen_frame, rx_log, log0, silent, tx_break_at, dir_packets, line, due, pps_started>>

DmxIsDataChanged ==
    /\ HandedFollowed(dmx_get_available_ret(m))
    /\ m' = dmx_is_data_changed(m)
    /\ api_ret' = dmx_is_data_changed_ret(m)
    /\ dmx_held' = dmx_get_available_ret(m)
    /\ seen_frame' = IF dmx_get_available_ret(m) = NONE THEN seen_frame
                     ELSE Payload(m, dmx_get_available_ret(m))
    /\ handed' = HandedNext(dmx_get_available_ret(m))
    /\ pub' = PubNext(m', dmx_get_available_ret(m), NONE)
    /\ UNCHANGED <<clo, st_m1, rx_frame, rx_log, log0, silent, tx_break_at, dir_packets, line, due, pps_started>>

RdmGetAvailable ==
    /\ HandedFollowed(rdm_get_available_ret(m))
    /\ m' = rdm_get_available(m)
    /\ api_ret' = rdm_get_available_ret(m)
    /\ handed' = HandedNext(rdm_get_available_ret(m))
    /\ pub' = PubNext(m', NONE, rdm_get_available_ret(m))
    /\ UNCHANGED <<clo, st_m1, rx_frame, dmx_held, seen_frame, rx_log, log0, silent, tx_break_at, dir_packets, line, due, pps_started>>

SetPortDirection(port_direction, enable_data) ==
    /\ m' = dmx_set_port_direction(m, port_direction, enable_data, U32(clo))
    /\ rx_frame' = <<>>
    /\ tx_break_at' = NONE
    /\ dir_packets' = m.total_statistics.dmx_packets
    /\ UNCHANGED <<clo, st_m1, dmx_held, api_ret, seen_frame, rx_log, log0, silent, handed, line, pub, due, pps_started>>

DmxInit(keep_handlers) ==
    /\ m' = dmx_init(m, keep_handlers)
    /\ rx_frame' = <<>>
    /\ dmx_held' = NONE
    /\ tx_break_at' = NONE
    /\ UNCHANGED <<clo, st_m1, api_ret, seen_frame, rx_log, log0, silent, handed, dir_packets, line, pub, due, pps_started>>

\* The foreground sets a transmit parameter.  The history of the reception
\* is untouched.
SetSendData(data, length) ==
    /\ m' = dmx_set_send_data(m, data, length)
    /\ UNCHANGED <<clo, st_m1, rx_frame, dmx_held, api_ret, seen_frame, rx_log, log0, silent,
                   handed, tx_break_at, dir_packets, line, pub, due, pps_started>>

SetOutputBreakTime(break_time) ==
    /\ m' = dmx_set_output_break_time(m, break_time)
    /\ UNCHANGED <<clo, st_m1, rx_frame, dmx_held, api_ret, seen_frame, rx_log, log0, silent,
                   handed, tx_break_at, dir_packets, line, pub, due, pps_started>>

SetOutputMabTime(mab_time) ==
    /\ m' = dmx_set_output_mab_time(m, mab_time)
    /\ UNCHANGED <<clo, st_m1, rx_frame, dmx_held, api_ret, seen_frame, rx_log, log0, silent,
                   handed, tx_break_at, dir_packets, line, pub, due, pps_started>>

SetOutputPeriod(period) ==
    /\ m' = dmx_set_output_period(m, period)
    /\ UNCHANGED <<clo, st_m1, rx_frame, dmx_held, api_ret, seen_frame, rx_log, log0, silent,
                   handed, tx_break_at, dir_packets, line, pub, due, pps_started>>

\* The bytes the line carries in the DMX exploration.
DmxBytes == {DMX512_START_CODE, 1}

\* The driver initialised and receiving: dmx_init, then
\* dmx_set_port_direction(DMX_PORT_DIRECTION_INP, true).
Receiving == dmx_set_port_direction(dmx_init(StaticInit, TRUE), "INP", TRUE, 0)

InitFollowing(s, order, owed, started) ==
    /\ m = s
    /\ clo = 0
    /\ st_m1 = FALSE
    /\ rx_frame = <<>>
    /\ dmx_held = NONE
    /\ api_ret = NONE
    /\ seen_frame = <<>>
    /\ rx_log = <<>>
    /\ log0 = Snapshot(s)
    /\ silent = FALSE
    /\ handed = 0
    /\ tx_break_at = NONE
    /\ dir_packets = NONE
    /\ line = [sent |-> <<>>, taken |-> 0]
    /\ pub = order
    /\ due = owed
    /\ pps_started = started

InitWith(s) == InitFollowing(s, PubOff, DueOff, NONE)

Init == InitWith(Receiving)

\* The interrupt handlers that fill the DMX ring.
Producer ==
    \/ \E data \in DmxBytes : UartEvent(FALSE, data)
    \/ UartEvent(TRUE, 0)
    \/ Timer1Irq

Next ==
    \/ \E data \in DmxBytes : UartEvent(FALSE, data)
    \/ UartEvent(TRUE, 0)
    \/ Tick
    \/ Timer1Irq
    \/ DmxGetAvailable

Spec == Init /\ [][Next]_vars

\* The same reception, with the break_to_break due to each frame followed.
SpecDue == InitFollowing(Receiving, PubOff, DueStart, NONE) /\ [][Next]_vars

\* The same reception, with a consumer that calls dmx_is_data_changed.
NextChanged ==
    \/ Producer
    \/ Tick
    \/ DmxIsDataChanged

SpecChanged == Init /\ [][NextChanged]_vars

\* The bytes the line carries in the RDM exploration, by their place after
\* the break: start code, sub start code, message length, two more bytes.
RdmBytesAt(place) ==
    CASE place = 1 -> {DMX512_START_CODE, E120_SC_RDM}
      [] place = 2 -> {E120_SC_SUB_MESSAGE, 2}
      [] place = 3 -> {0, 2, 3}
      [] place = 4 -> {0, 205}
      [] OTHER -> {205, 208, 209}

NextRdm ==
    \/ \E data \in RdmBytesAt(Len(rx_log)) : UartStream(FALSE, data)
    \/ UartStream(TRUE, 0)
    \/ RdmGetAvailable

SpecRdm == Init /\ [][NextRdm]_vars

\* The bytes the line carries in the exploration of the order, by their
\* place after the break: a full DMX universe, or an RDM packet of message
\* length 3 with its checksum.
OrderBytesAt(place) ==
    CASE place = 1 -> {DMX512_START_CODE, E120_SC_RDM}
      [] place = 2 -> {E120_SC_SUB_MESSAGE}
      [] place = 3 -> {3}
      [] place = 4 -> {0}
      [] OTHER -> {E120_SC_RDM + E120_SC_SUB_MESSAGE + 3}

\* Such streams with a consumer of each ring, and the order of publication
\* followed.
NextOrder ==
    \/ \E data \in OrderBytesAt(Len(rx_log)) : UartStream(FALSE, data)
    \/ UartStream(TRUE, 0)
    \/ RdmGetAvailable
    \/ DmxGetAvailable

SpecOrder == InitFollowing(Receiving, PubStart, DueOff, NONE) /\ [][NextOrder]_vars

\* The bytes the line carries in the discovery exploration: preamble and
\* delimiter, and after the delimiter the bytes of an encoded UID.
Delimited(log) == \E i \in 1 .. Len(log) : log[i] = RDM_DISC_DELIMITER
DiscBytesAfter(log) ==
    IF Delimited(log) THEN {85}
    ELSE {RDM_DISC_PREAMBLE, RDM_DISC_DELIMITER}

NextDisc ==
    \/ \E data \in DiscBytesAfter(rx_log) : UartStream(FALSE, data)
    \/ UartStream(TRUE, 0)
    \/ RdmGetAvailable

SpecDisc == Init /\ [][NextDisc]_vars

\* Direction control: the driver from its static initialisation, with
\* dmx_init and dmx_set_port_direction called at any time.
NextDir ==
    \/ \E keep_handlers \in BOOLEAN : DmxInit(keep_handlers)
    \/ \E port_direction \in {"INP", "OUTP"}, enable_data \in BOOLEAN :
           SetPortDirection(port_direction, enable_data)
    \/ UartEvent(FALSE, DMX512_START_CODE)
    \/ UartEvent(TRUE, 0)
    \/ Tick
    \/ Timer1Irq

SpecDir == InitWith(StaticInit) /\ [][NextDir]_vars

\* The transmit parameters: the setters called in any order from the static
\* initialisation.  The times passed are small, about the minima, and close
\* to the largest uint32_t; the buffers are a start code and slots.
SetterTimes == {0, 100, 1000, 1300, WORD - 100}
SendLengths == 1 .. DMX_UNIVERSE_SIZE + 1
SendBuffers(length) == [1 .. length -> DmxBytes]

NextSet ==
    \/ \E length \in SendLengths : \E data \in SendBuffers(length) : SetSendData(data, length)
    \/ \E break_time \in SetterTimes : SetOutputBreakTime(break_time)
    \/ \E mab_time \in SetterTimes : SetOutputMabTime(mab_time)
    \/ \E period \in SetterTimes : SetOutputPeriod(period)

SpecSet == InitWith(StaticInit) /\ [][NextSet]_vars

\* Sending: from dmx_init the transmit parameters are set, then data is
\* enabled in output direction and the timer walks the send state machine
\* with the parameters as they are.
NextSend ==
    \/ ~m.dmx_send_always /\ \E length \in SendLengths : \E data \in SendBuffers(length) :
                                  SetSendData(data, length)
    \/ ~m.dmx_send_always /\ \E break_time \in SetterTimes : SetOutputBreakTime(break_time)
    \/ ~m.dmx_send_always /\ \E mab_time \in SetterTimes : SetOutputMabTime(mab_time)
    \/ ~m.dmx_send_always /\ \E period \in SetterTimes : SetOutputPeriod(period)
    \/ ~m.dmx_send_always /\ SetPortDirection("OUTP", TRUE)
    \/ Timer1Send

SpecSend == InitWith(dmx_init(StaticInit, TRUE)) /\ [][NextSend]_vars

\* The bytes the line carries in the exploration of the receive states, by
\* the state that takes them: every edge of the switch of lines 388-529 has
\* a byte, the message length of an RDM packet is also below 3 and beyond
\* the buffer, and the checksum is good or bad.  One discovery reply is on
\* the line, before the first packet.
DiscoveryDue ==
    /\ m.total_statistics.dmx_packets + m.total_statistics.rdm_packets = 0
    /\ m.rdm_data_buffer[0][0] # RDM_DISC_PREAMBLE

MachineBytes ==
    CASE m.dmx_receive_state = "IDLE" ->
             IF DiscoveryDue THEN {RDM_DISC_PREAMBLE, DMX512_START_CODE}
             ELSE {DMX512_START_CODE}
      [] m.dmx_receive_state = "BREAK" -> {DMX512_START_CODE, E120_SC_RDM, 1}
      [] m.dmx_receive_state = "DMXDATA" -> {1}
      [] m.dmx_receive_state = "RDMDATA" ->
             IF m.dmx_data_index = 1 THEN {E120_SC_SUB_MESSAGE}
             ELSE IF m.dmx_data_index = 2 THEN {0, 3, 255}
             ELSE {0}
      [] m.dmx_receive_state = "CHECKSUMH" -> {0}
      [] m.dmx_receive_state = "CHECKSUML" -> {0, E120_SC_RDM + E120_SC_SUB_MESSAGE + 3}
      [] m.dmx_receive_state = "RDMDISCFE" -> {RDM_DISC_PREAMBLE, RDM_DISC_DELIMITER, 1}
      [] OTHER -> {85}

\* The FIQ alone, with breaks at any place and one step of time.
NextMachine ==
    \/ \E data \in MachineBytes : UartEvent(FALSE, data)
    \/ UartEvent(TRUE, 0)
    \/ clo < TickStep /\ Tick

SpecMachine == Init /\ [][NextMachine]_vars

\* Reception over seconds: the FIQ, the tick of compare 3, and a foreground
\* that stops and starts the reception and resets the totals while it is
\* stopped.  The line carries DMX frames of null slots, at most MaxPackets
\* started in a second.
NextPps ==
    \/ /\ pps_started < MaxPackets \/ m.dmx_receive_state # "BREAK"
       /\ UartEvent(FALSE, DMX512_START_CODE)
    \/ UartEvent(TRUE, 0)
    \/ Timer3Irq
    \/ \E enable_data \in BOOLEAN : SetPortDirection("INP", enable_data)
    \/ ~m.fiq_enabled /\ ResetTotalStatistics

SpecPps == InitFollowing(Receiving, PubOff, DueOff, 0) /\ [][NextPps]_vars

\* Reception with the FIQ pre-empting the watchdog.
NextPreempt ==
    \/ \E data \in DmxBytes : UartEvent(FALSE, data)
    \/ UartEvent(TRUE, 0)
    \/ Tick
    \/ Timer1Test
    \/ Timer1Publish

SpecPreempt == Init /\ [][NextPreempt]_vars

\* The bytes the line carries before it falls silent: the null start code
\* after a break, and in a frame a slot value set by the slot's number, so
\* that each frame differs from the cleared buffer and from shorter frames.
LiveBytes ==
    IF m.dmx_receive_state = "DMXDATA"
    THEN {m.dmx_data_index % 2}
    ELSE {DMX512_START_CODE}

\* Reception with the direction set again at any time, and a consumer that
\* pops with either call.
NextRedirect ==
    \/ \E data \in LiveBytes : UartEvent(FALSE, data)
    \/ UartEvent(TRUE, 0)
    \/ Tick
    \/ Timer1Irq
    \/ \E port_direction \in {"INP", "OUTP"}, enable_data \in BOOLEAN :
           SetPortDirection(port_direction, enable_data)
    \/ DmxGetAvailable
    \/ DmxIsDataChanged

SpecRedirect == Init /\ [][NextRedirect]_vars

\* Loopback: a sender is given a buffer that starts with the DMX start code
\* and the events it emits are fed to the receiver; the timer interrupt of
\* the receiver is served and the foreground pops.
LoopBuffers(length) == {data \in SendBuffers(length) : data[1] = DMX512_START_CODE}

NextLoop ==
    \/ \E length \in SendLengths : \E data \in LoopBuffers(length) : LoopSend(data, length)
    \/ LoopReceive
    \/ LoopIdle
    \/ Timer1Irq
    \/ DmxGetAvailable

SpecLoop ==
    Init /\ [][NextLoop]_vars
         /\ WF_vars(LoopReceive) /\ WF_vars(LoopIdle) /\ WF_vars(Timer1Irq)
         /\ WF_vars(DmxGetAvailable)

\* Reception of full universes with a consumer, and a foreground that
\* hands data to the sender.
NextStage ==
    \/ \E data \in LiveBytes : UartEvent(FALSE, data)
    \/ UartEvent(TRUE, 0)
    \/ DmxGetAvailable
    \/ \E length \in SendLengths : \E data \in LoopBuffers(length) : SetSendData(data, length)

SpecStage == Init /\ [][NextStage]_vars

\* The same reception until the line falls silent; the system timer runs on
\* and its interrupt is served, the FIQ pre-empting it while bytes arrive.
NextLive ==
    \/ \E data \in LiveBytes : UartEvent(FALSE, data)
    \/ UartEvent(TRUE, 0)
    \/ Tick
    \/ Timer1Test
    \/ Timer1Publish
    \/ GoSilent

LiveSpec ==
    Init /\ [][NextLive]_vars
         /\ WF_vars(Tick) /\ WF_vars(Timer1Test) /\ WF_vars(Timer1Publish)

----------------------------------------------------------------------------
(* The claims.                                                              *)

\* A foreground pop of the DMX ring that returned a frame.
DmxPop == (DmxGetAvailable \/ DmxIsDataChanged) /\ api_ret' # NONE

\* C1: the producer never advances a head when the next head equals the
\* tail: a frame completed while the ring is full leaves the head unchanged,
\* so the head never wraps onto the tail.
C1_HeadStopsAtTail ==
    [][Producer =>
         /\ m'.dmx_data_buffer_index_head # m.dmx_data_buffer_index_head
                => DmxHeadNext(m.dmx_data_buffer_index_head) # m.dmx_data_buffer_index_tail
         /\ m'.rdm_data_buffer_index_head # m.rdm_data_buffer_index_head
                => RdmHeadNext(m.rdm_data_buffer_index_head) # m.rdm_data_buffer_index_tail]_vars

\* C2: the slot dmx_get_available returned is not written by the producer
\* before the consumer's next pop.
C2_HeldSlotNotWritten ==
    [][Producer /\ dmx_held # NONE => m'.dmx_data[dmx_held] = m.dmx_data[dmx_held]]_vars

\* C4: every frame delivered to the consumer has between 1 and
\* DMX_UNIVERSE_SIZE slots and the DMX start code in data[0].
C4_DeliveredFrameBounds ==
    [][DmxPop =>
         /\ m.dmx_data[api_ret'].slots_in_packet >= 1
         /\ m.dmx_data[api_ret'].slots_in_packet <= DMX_UNIVERSE_SIZE
         /\ m.dmx_data[api_ret'].data[0] = DMX512_START_CODE]_vars

\* C8: every DMX publish, in the FIQ or by the watchdog, leaves in the
\* published slot the number of slots received and the bytes received in
\* arrival order; the slot that fills the universe publishes in the FIQ.
C8_PublishRecordsFrame ==
    [][m' # m =>
         LET h == m.dmx_data_buffer_index_head
         IN  /\ m'.dmx_data_buffer_index_head # h =>
                  /\ m'.dmx_data_buffer_index_head = DmxHeadNext(h)
                  /\ m'.dmx_receive_state = "IDLE"
                  /\ m'.dmx_data[h].slots_in_packet = Len(rx_frame') - 1
                  /\ \A i \in 1 .. Len(rx_frame') :
                         m'.dmx_data[h].data[i - 1] = rx_frame'[i]
             /\ (m.dmx_receive_state = "DMXDATA" /\ Len(rx_frame') = DMX_UNIVERSE_SIZE + 1
                    /\ rx_frame' # rx_frame) =>
                  /\ m'.dmx_data_buffer_index_head = DmxHeadNext(h)
                  /\ m'.dmx_data[h].slots_in_packet = DMX_UNIVERSE_SIZE]_vars

\* C10: with a frame available, dmx_is_data_changed returns NULL exactly when
\* the frame has the length and the payload of the frame processed before.
C10_ChangedIffPayloadDiffers ==
    [][(DmxIsDataChanged /\ dmx_get_available_ret(m) # NONE /\ seen_frame # <<>>) =>
         ((api_ret' = NONE) <=> (Payload(m, dmx_get_available_ret(m)) = seen_frame))]_vars

\* C3: the FIQ byte handler is never enabled while the send callback is
\* installed on timer 1; both may be off.
C3_NeverRxAndTx ==
    ~(m.fiq_enabled /\ m.timer1_handler = "irq_timer1_dmx_send")

\* C3, witness: sending is on, after packets were received.
C3_Witness ==
    /\ m.timer1_handler = "irq_timer1_dmx_send"
    /\ m.dmx_send_always
    /\ ~m.fiq_enabled
    /\ m.total_statistics.dmx_packets > 0

\* The sum of the first n bytes of an RDM slot.
RECURSIVE SumOfSlot(_, _)
SumOfSlot(f, n) == IF n = 0 THEN 0 ELSE f[n - 1] + SumOfSlot(f, n - 1)

\* C5: a frame published from CHECKSUML carries, after the message_length
\* bytes that its byte 2 announces, the 16-bit sum of those bytes, high byte
\* first.
C5_PublishedChecksumMatches ==
    [][(m.dmx_receive_state = "CHECKSUML"
          /\ m'.rdm_data_buffer_index_head # m.rdm_data_buffer_index_head) =>
         LET f == m'.rdm_data_buffer[m.rdm_data_buffer_index_head]
             len == f[2]
         IN  /\ len + 1 < RDM_DATA_BUFFER_SIZE
             /\ SumOfSlot(f, len) % 65536 = f[len] * 256 + f[len + 1]]_vars

\* The sum of the events 2 .. n of a stream (the bytes after the break).
RECURSIVE SumOfLog(_, _)
SumOfLog(log, n) == IF n <= 1 THEN 0 ELSE log[n] + SumOfLog(log, n - 1)

\* The stream is a break, the RDM start code and a packet of the length its
\* message_length field gives, followed by two bytes.
IsRdmPacket(log) ==
    /\ Len(log) >= 4
    /\ log[1] = BRK
    /\ log[2] = E120_SC_RDM
    /\ log[4] >= 3
    /\ Len(log) = 1 + log[4] + 2

\* The two bytes after the packet are its checksum and the sub start code is
\* E120_SC_SUB_MESSAGE.
IsGoodRdmPacket(log) ==
    /\ log[Len(log) - 1] * 256 + log[Len(log)] = SumOfLog(log, Len(log) - 2) % 65536
    /\ log[3] = E120_SC_SUB_MESSAGE

\* C6: after a break, 0xCC, a packet and two checksum bytes the RDM head has
\* advanced by one iff the checksum is right and the sub start code is 0x01,
\* else it is unchanged; either way the state is IDLE, rdm_packets is one
\* more and dmx_packets is the same.
C6_PacketPublishedIffGood ==
    [][(rx_log' # rx_log /\ IsRdmPacket(rx_log')) =>
         /\ IsGoodRdmPacket(rx_log') =>
                m'.rdm_data_buffer_index_head = RdmHeadNext(log0'.rdm_head)
         /\ ~IsGoodRdmPacket(rx_log') =>
                m'.rdm_data_buffer_index_head = log0'.rdm_head
         /\ m'.dmx_receive_state = "IDLE"
         /\ m'.total_statistics.rdm_packets = log0'.rdm_packets + 1
         /\ m'.total_statistics.dmx_packets = log0'.dmx_packets]_vars

\* The watchdog has published the frame the line went silent in.
SilentFramePublished ==
    /\ m.dmx_receive_state = "IDLE"
    /\ m.dmx_data_buffer_index_head = DmxHeadNext(log0.dmx_head)
    /\ m.total_statistics.dmx_packets = log0.dmx_packets
    /\ m.dmx_data[log0.dmx_head].slots_in_packet = Len(rx_frame) - 1
    /\ \A i \in 1 .. Len(rx_frame) : m.dmx_data[log0.dmx_head].data[i - 1] = rx_frame[i]

\* C7: once the line is silent after a break, the start code and k >= 1
\* slots, the watchdog eventually publishes one frame of k slots with the
\* bytes received, the state is IDLE, and it stays so.
C7_WatchdogPublishes == silent ~> []SilentFramePublished

\* C7, witness: the line is silent and the frame of k slots is published.
C7_Witness ==
    /\ silent
    /\ Len(rx_frame) >= 2
    /\ SilentFramePublished

\* The stream is a discovery reply: up to MaxPreamble bytes 0xFE, 0xAA, the
\* encoded UID and four checksum bytes, with room in a slot.
IsDiscReply(log) ==
    \E k \in 0 .. MaxPreamble :
        /\ Len(log) = k + 1 + 2 * RDM_UID_SIZE + 4
        /\ Len(log) <= RDM_DATA_BUFFER_SIZE
        /\ \A i \in 1 .. k : log[i] = RDM_DISC_PREAMBLE
        /\ log[k + 1] = RDM_DISC_DELIMITER

\* C9: the last byte of a discovery reply received from IDLE advances the
\* RDM head by one, leaves the bytes of the reply in the published slot and
\* the state IDLE.
C9_DiscoveryReplyPublished ==
    [][(rx_log' # rx_log /\ IsDiscReply(rx_log')) =>
         /\ m.rdm_data_buffer_index_head = log0'.rdm_head
         /\ m'.rdm_data_buffer_index_head = RdmHeadNext(log0'.rdm_head)
         /\ m'.dmx_receive_state = "IDLE"
         /\ \A i \in 1 .. Len(rx_log') :
                m'.rdm_data_buffer[log0'.rdm_head][i - 1] = rx_log'[i]]_vars

\* C11: the packets counted, DMX and RDM together, are never fewer than the
\* frames handed to the foreground from both rings.
C11_PacketsCoverHanded ==
    m.total_statistics.dmx_packets + m.total_statistics.rdm_packets >= handed

\* The time one packet takes: break, mark after break and 44 for each of
\* the data_len bytes.
PktOf(s) == s.dmx_output_break_time + s.dmx_output_mab_time + s.dmx_send_data_length * 44

\* C12: after any calls of the setters the effective period is
\* max(1204, pkt + 44) when the requested period is 0 or below pkt, and the
\* requested period otherwise, pkt taken from the current values.
C12_PeriodDerived ==
    m.dmx_output_period =
        IF m.dmx_output_period_requested = 0 \/ m.dmx_output_period_requested < PktOf(m)
        THEN MAX(DMX_TRANSMIT_BREAK_TO_BREAK_TIME_MIN, PktOf(m) + 44)
        ELSE m.dmx_output_period_requested

\* C13: after any calls of the setters the break time is at least 92, the
\* mark after break at least 12 and the effective period at least 1204.
C13_TimesAtLeastMinimum ==
    /\ m.dmx_output_break_time >= DMX_TRANSMIT_BREAK_TIME_MIN
    /\ m.dmx_output_mab_time >= DMX_TRANSMIT_MAB_TIME_MIN
    /\ m.dmx_output_period >= DMX_TRANSMIT_BREAK_TO_BREAK_TIME_MIN

\* C14: with sending enabled each timer tick moves the send state IDLE to
\* BREAK to MAB to IDLE: the break bit is set on entering BREAK and cleared
\* on entering MAB, the MAB tick writes the data_len bytes and arms the next
\* BREAK at break_micros + period, and a BREAK starts exactly period after
\* the BREAK before it.
C14_SendCycle ==
    [][Timer1Send =>
         /\ m.dmx_send_state \in {"IDLE", "BREAK", "MAB"}
         /\ m.dmx_send_state = "IDLE" =>
                /\ m'.dmx_send_state = "BREAK"
                /\ m'.pl011_brk
                /\ tx_break_at # NONE => tx_break_at' - tx_break_at = m.dmx_output_period
         /\ m.dmx_send_state = "BREAK" =>
                /\ m'.dmx_send_state = "MAB"
                /\ ~m'.pl011_brk
         /\ m.dmx_send_state = "MAB" =>
                /\ m'.dmx_send_state = "IDLE"
                /\ m'.pl011_dr_out =
                       [i \in 1 .. m.dmx_send_data_length |-> m.dmx_data[0].data[i - 1]]
                /\ m'.st_c1 = U32(m.dmx_send_break_micros + m.dmx_output_period)]_vars

\* C15: once dmx_set_port_direction has returned, dmx_get_available and
\* dmx_is_data_changed return no frame until a frame received after the call
\* has been published: a pop that returns a frame finds a DMX packet counted
\* since the call.
C15_NoStaleFrameAfterDirection ==
    [][(DmxPop /\ dir_packets # NONE) => m.total_statistics.dmx_packets > dir_packets]_vars

\* Both rings are empty and zeroed, the direction is input on the pin and in
\* dmx_get_port_direction, and neither reception nor sending is active.
InitialisedIdle(s) ==
    /\ s.dmx_data_buffer_index_head = s.dmx_data_buffer_index_tail
    /\ s.rdm_data_buffer_index_head = s.rdm_data_buffer_index_tail
    /\ s.dmx_data = [e \in DmxSlotIdx |-> ZeroDmxSlot]
    /\ s.rdm_data_buffer = [e \in RdmSlotIdx |-> ZeroRdmSlot]
    /\ s.gpio_direction = 0
    /\ s.dmx_port_direction = "INP"
    /\ ~s.fiq_enabled
    /\ ~s.dmx_send_always
    /\ s.timer1_handler # "irq_timer1_dmx_send"

\* C16: dmx_init, called in any reachable state, leaves both rings empty
\* and zeroed, the direction input and data disabled, and a second call
\* changes nothing.
C16_InitIdempotentIdle ==
    [][\A keep_handlers \in BOOLEAN :
           DmxInit(keep_handlers) =>
               /\ InitialisedIdle(m')
               /\ dmx_init(m', keep_handlers) = m']_vars

\* The foreground has popped a frame with as many slots as the sender sent
\* after the start code, and with the bytes sent.
LoopDelivered ==
    /\ api_ret # NONE
    /\ m.dmx_data[api_ret].slots_in_packet = Len(line.sent) - 2
    /\ \A i \in 1 .. Len(line.sent) - 2 : m.dmx_data[api_ret].data[i] = line.sent[i + 2]

\* The packet is on the line and the receiver has taken nothing of it yet.
LoopStarted == line.sent # <<>> /\ line.taken = 0

\* C17: the events the sender emits for a buffer of len bytes, fed to the
\* receiver and its watchdog, lead to a delivered frame with slots_in_packet
\* = len - 1 and the bytes 1 .. len - 1 of the buffer.
C17_LoopbackDelivers == LoopStarted ~> LoopDelivered

C19_BreakToBreakDue ==
    [][DmxPop => m.dmx_data[api_ret'].break_to_break = due.slot[api_ret']]_vars

\* C20: the frame a pop of the DMX ring returns has slot_to_slot of at least
\* 44 microseconds, whichever path has published it.
C20_SlotToSlotAtLeastMinimum ==
    [][DmxPop => m.dmx_data[api_ret'].slot_to_slot >= SLOT_TO_SLOT_MIN]_vars

\* C21: the writes of the watchdog find the receiver in DMXDATA, as its
\* tests did: the head moves once for the frame in reception, not a second
\* time after the FIQ has published it, and no BREAK the FIQ has recorded
\* since the tests is turned into IDLE.
C21_WatchdogWritesInDmxData ==
    [][Timer1Publish => m.dmx_receive_state = "DMXDATA"]_vars

\* C22: a BREAK in any receive state sets the state to BREAK and records
\* the time of the break, and moves neither head: the DMX frame in reception
\* is not published, and the next frame is stored in the same slot.
C22_BreakAbandonsFrame ==
    [][UartEvent(TRUE, 0) =>
         /\ m'.dmx_receive_state = "BREAK"
         /\ m'.dmx_break_to_break_latest = U32(clo)
         /\ m'.dmx_data_buffer_index_head = m.dmx_data_buffer_index_head
         /\ m'.rdm_data_buffer_index_head = m.rdm_data_buffer_index_head
         /\ m'.dmx_data = m.dmx_data]_vars

\* A BREAK has arrived after the first slot of a DMX frame.
C22_Witness ==
    /\ m.dmx_receive_state = "BREAK"
    /\ m.dmx_data_index = 2
    /\ rx_frame = <<DMX512_START_CODE, 1>>
    /\ m.dmx_break_to_break_latest = clo
    /\ clo > 0

\* C23: the watchdog publishes exactly when the receiver is in DMXDATA and
\* the time since the last byte exceeds the slot_to_slot of the frame in
\* reception, the slot at the head, wherever the head stands; when it does
\* not publish it leaves the ring as it is.
C23_WatchdogUsesHeadSlot ==
    [][(Timer1Irq /\ m.timer1_handler = "irq_timer1_dmx_receive") =>
         LET h == m.dmx_data_buffer_index_head
             due_now == /\ m.dmx_receive_state = "DMXDATA"
                        /\ U32(clo - m.dmx_fiq_micros_current + WORD)
                               > m.dmx_data[h].slot_to_slot
         IN  /\ due_now => /\ m'.dmx_data_buffer_index_head = DmxHeadNext(h)
                            /\ m'.dmx_data[h].slots_in_packet = m.dmx_data_index - 1
                            /\ m'.dmx_receive_state = "IDLE"
             /\ ~due_now => /\ m'.dmx_data_buffer_index_head = h
                             /\ m'.dmx_data = m.dmx_data
                             /\ m'.dmx_receive_state = m.dmx_receive_state]_vars

\* The receive states the transition table allows after a byte in a state.
TableNext(state, data) ==
    CASE state = "IDLE" ->
             IF data = RDM_DISC_PREAMBLE THEN {"RDMDISCFE"} ELSE {"IDLE"}
      [] state = "BREAK" ->
             IF data = DMX512_START_CODE THEN {"DMXDATA"}
             ELSE IF data = E120_SC_RDM THEN {"RDMDATA"}
             ELSE {"IDLE"}
      [] state = "DMXDATA" -> {"DMXDATA", "IDLE"}
      [] state = "RDMDATA" -> {"RDMDATA", "CHECKSUMH", "IDLE"}
      [] state = "CHECKSUMH" -> {"CHECKSUML"}
      [] state = "CHECKSUML" -> {"IDLE"}
      [] state = "RDMDISCFE" ->
             IF data = RDM_DISC_PREAMBLE THEN {"RDMDISCFE"}
             ELSE IF data = RDM_DISC_DELIMITER THEN {"RDMDISCEUID"}
             ELSE {"IDLE"}
      [] state = "RDMDISCEUID" -> {"RDMDISCEUID", "RDMDISCECS"}
      [] state = "RDMDISCECS" -> {"RDMDISCECS", "IDLE"}
      [] OTHER -> {}

\* C24: every byte the FIQ takes moves the receive state along an edge of
\* the transition table: a state is entered only from its predecessor on
\* the byte listed, other bytes in BREAK and RDMDISCFE lead to IDLE, bytes
\* other than the preamble are ignored in IDLE, and a packet ends in IDLE.
C24_StateFollowsTable ==
    [][\A data \in MachineBytes :
           UartEvent(FALSE, data) =>
               m'.dmx_receive_state \in TableNext(m.dmx_receive_state, data)]_vars

\* The receiver has taken a discovery reply up to its checksum and, after a
\* break, an RDM packet up to its checksum.
C24_Witness ==
    /\ m.dmx_receive_state = "CHECKSUML"
    /\ m.rdm_data_buffer_index_head = 1

\* C25: at every tick of compare 3 dmx_updates_per_seconde becomes the
\* number of DMX frames started since the tick before, also at the first
\* tick after the totals were reset with the reception stopped.
C25_UpdatesPerSecond ==
    [][Timer3Irq => m'.dmx_updates_per_seconde = pps_started]_vars

\* The receive states that store every byte they take in the RDM slot at
\* the head; RDMDATA and RDMDISCFE store when they move the index.
RdmStoring ==
    \/ m.dmx_receive_state \in {"CHECKSUMH", "CHECKSUML", "RDMDISCEUID", "RDMDISCECS"}
    \/ /\ m.dmx_receive_state \in {"RDMDATA", "RDMDISCFE"}
       /\ m'.dmx_data_index = m.dmx_data_index + 1

\* C26: every byte the FIQ stores goes inside the slot at the head: a DMX
\* slot is written at an index of at most DMX_UNIVERSE_SIZE, an RDM slot at
\* an index below RDM_DATA_BUFFER_SIZE, whatever the message length and
\* the number of preamble bytes.
C26_WritesInsideSlot ==
    [][\A data \in MachineBytes :
           UartEvent(FALSE, data) =>
               /\ m.dmx_receive_state = "DMXDATA" => m.dmx_data_index <= DMX_UNIVERSE_SIZE
               /\ RdmStoring => m.dmx_data_index < RDM_DATA_BUFFER_SIZE]_vars

\* The DMX slots committed and not yet popped: from the tail up to the head.
Committed(s) ==
    {e \in DmxSlotIdx :
         AndMask(e - s.dmx_data_buffer_index_tail + DMX_DATA_BUFFER_INDEX_ENTRIES,
                 DMX_DATA_BUFFER_INDEX_MASK)
             < AndMask(s.dmx_data_buffer_index_head - s.dmx_data_buffer_index_tail
                           + DMX_DATA_BUFFER_INDEX_ENTRIES, DMX_DATA_BUFFER_INDEX_MASK)}

\* C27: dmx_set_send_data leaves the DMX receive ring alone: head and tail
\* keep their value, the payload of every slot committed or held by the
\* consumer is unchanged, and the send data length is within 1 and
\* DMX_UNIVERSE_SIZE + 1.
C27_SendDataKeepsReceiveRing ==
    [][(\E length \in SendLengths : \E data \in LoopBuffers(length) :
            SetSendData(data, length)) =>
         /\ m'.dmx_data_buffer_index_head = m.dmx_data_buffer_index_head
         /\ m'.dmx_data_buffer_index_tail = m.dmx_data_buffer_index_tail
         /\ \A e \in Committed(m) \cup ({dmx_held} \cap DmxSlotIdx) :
                m'.dmx_data[e].data = m.dmx_data[e].data
         /\ m'.dmx_send_data_length \in 1 .. DMX_UNIVERSE_SIZE + 1]_vars

====
